---------------------------- MODULE Spec2Model ----------------------------
(***************************************************************************)
(* Model of src/src/cookieSyncWithConsent.js: the Prebid Server cookie     *)
(* sync agent gated on an AMP consent message.                             *)
(*                                                                         *)
(* JavaScript values are tagged records so that values of different types  *)
(* can be compared:  a number n is [num |-> n], NaN is [nan |-> TRUE],     *)
(* undefined is [undef |-> TRUE], a string value is [str |-> s].  The      *)
(* literal 9007199254740991 does not fit the model checker's integers and  *)
(* is carried as [big |-> "9007199254740991"].                             *)
(* A query-parameter string is a sequence of one-character strings, '' is  *)
(* the empty sequence.                                                     *)
(***************************************************************************)
EXTENDS Integers, Sequences, FiniteSets, TLC

VARIABLES
    pc,                 \* "load" before the script has run, "running" after
    params,             \* the raw query parameters, as parseQueryParam returns them
    ENDPOINT,           \* line 17
    ENDPOINT_ARGS,      \* line 18 (an object, or undefined)
    MAX_SYNC_COUNT,     \* line 20
    TIMEOUT,            \* line 21
    DEFAULT_GDPR_SCOPE, \* line 22
    consent,            \* line 24
    syncRan,            \* line 25
    timeout,            \* line 255: the timer handle: "unarmed", "armed", "fired", "cleared"
    effects,            \* the script's top-level effects, in program order
    msgCount,           \* number of 'message' events delivered to the listener
    initCount,          \* number of calls of init()
    firedBy,            \* who called init(): "none", "timer", "message"
    requests,           \* the data argument of each ajax() call, in order
    xhr,                \* "none", "sent", "construction_failed", "success", "error"
    uncaught,           \* number of exceptions that left a handler uncaught
    response,           \* [list |-> l], l the bidder_status list as handed to doAllSyncs
    bidders,            \* the array doAllSyncs pops from
    handled,            \* indices (in response) of the records popped, in order
    started,            \* transports started, in order: [kind, url, bidder, index]
    pending             \* started transports whose continuation has not fired

vars == <<pc, params, ENDPOINT, ENDPOINT_ARGS, MAX_SYNC_COUNT, TIMEOUT,
          DEFAULT_GDPR_SCOPE, consent, syncRan, timeout, effects, msgCount,
          initCount, firedBy, requests, xhr, uncaught, response, bidders,
          handled, started, pending>>

configVars == <<ENDPOINT, ENDPOINT_ARGS, MAX_SYNC_COUNT, TIMEOUT, DEFAULT_GDPR_SCOPE>>
gateVars == <<consent, syncRan, timeout, initCount, firedBy, requests>>
dispatchVars == <<response, bidders, handled, started, pending>>

-----------------------------------------------------------------------------
(* Bounds of the model *)

\* longest raw parameter string drawn for the sanitizers
MaxLen == 3
\* most 'message' events delivered in one page load
MaxMessages == 2
\* longest bidder_status list of a response
MaxBidders == 2

-----------------------------------------------------------------------------
(* JavaScript values *)

Undefined == [undef |-> TRUE]
NaN == [nan |-> TRUE]
Num(n) == [num |-> n]
Str(s) == [str |-> s]
IsNaN(v) == v = NaN

\* an object is a function from property names to values; {} is the empty one.
\* A variable that holds either an object or undefined holds Obj(o) or Undefined.
EmptyObject == <<>>
Obj(o) == [obj |-> o]
IsObject(v) == "obj" \in DOMAIN v
Has(obj, key) == key \in DOMAIN obj
SetProp(obj, key, val) ==
    [k \in (DOMAIN obj) \cup {key} |-> IF k = key THEN val ELSE obj[k]]

-----------------------------------------------------------------------------
(* parseInt(string, 10) *)

Digits == {"0", "1", "2", "3", "4", "5", "6", "7", "8", "9"}
DigitVal(c) == CHOOSE d \in 0..9 : ToString(d) = c

RECURSIVE SkipSpaces(_)
SkipSpaces(s) ==
    IF s # <<>> /\ Head(s) = " " THEN SkipSpaces(Tail(s)) ELSE s

\* the value of the longest prefix of decimal digits of s, continuing from acc
RECURSIVE DigitsPrefix(_, _)
DigitsPrefix(s, acc) ==
    IF s # <<>> /\ Head(s) \in Digits
    THEN DigitsPrefix(Tail(s), 10 * acc + DigitVal(Head(s)))
    ELSE acc

\* parseInt: leading white space is skipped, one sign is read, then the longest
\* run of digits; NaN when there is no digit.  (-0 is the number 0 here.)
ParseInt(s) ==
    LET t == SkipSpaces(s)
        neg == t # <<>> /\ Head(t) = "-"
        u == IF t # <<>> /\ Head(t) \in {"-", "+"} THEN Tail(t) ELSE t
    IN  IF u = <<>> \/ Head(u) \notin Digits THEN NaN
        ELSE Num(IF neg THEN 0 - DigitsPrefix(u, 0) ELSE DigitsPrefix(u, 0))

\* String(n) of an integer n
RECURSIVE NatToChars(_)
NatToChars(n) ==
    IF n < 10 THEN <<ToString(n)>>
    ELSE Append(NatToChars(n \div 10), ToString(n % 10))
NumToChars(n) == IF n < 0 THEN <<"-">> \o NatToChars(0 - n) ELSE NatToChars(n)

\* parseInt(value, 10) of a number value: the number is converted to a string first
ParseIntOfNumber(v) == IF IsNaN(v) THEN NaN ELSE ParseInt(NumToChars(v.num))

-----------------------------------------------------------------------------
(* The parameter sanitizers, lines 170-218 *)

MaxSafeInteger == [big |-> "9007199254740991"]

VALID_ENDPOINTS ==
    [rubicon |-> "https://prebid-server.rubiconproject.com/cookie_sync",
     appnexus |-> "https://prebid.adnxs.com/pbs/v1/cookie_sync"]

\* the endpoint parameter is a name (a string), '' when absent
sanitizeEndpoint(value) ==
    IF value # "" /\ value \in DOMAIN VALID_ENDPOINTS
    THEN VALID_ENDPOINTS[value]
    ELSE "https://prebid.adnxs.com/pbs/v1/cookie_sync"

\* variant: the test value < 0 is lost
sanitizeSyncCountNoSign(value) ==
    IF IsNaN(value) THEN MaxSafeInteger ELSE value

sanitizeSyncCount(value) ==
    IF IsNaN(value) \/ value.num < 0 THEN MaxSafeInteger ELSE value

\* variant: anything that is not 0 or 1 is taken as 0
sanitizeScopeDefaultZero(value) ==
    IF value = Num(0) \/ value = Num(1) THEN value ELSE Num(0)

sanitizeScope(value) ==
    IF value = Num(0) \/ value = Num(1) THEN value ELSE Num(1)

sanitizeTimeout(value) ==
    IF ~IsNaN(value) /\ value = ParseIntOfNumber(value) THEN value ELSE Num(10000)

\* line 20: parseInt((maxSyncCountParam) ? maxSyncCountParam : 10, 10); the
\* number 10 is converted to the string "10" by parseInt
maxSyncCountOf(maxSyncCountParam) ==
    sanitizeSyncCount(ParseInt(IF maxSyncCountParam # <<>>
                               THEN maxSyncCountParam ELSE NumToChars(10)))

-----------------------------------------------------------------------------
(* sanitizeEndpointArgs, lines 174-185.  Property names and string values  *)
(* of the args object are character sequences.                             *)

\* String.prototype.split(sep): the pieces of s between occurrences of sep
RECURSIVE SplitFrom(_, _, _)
SplitFrom(s, sep, cur) ==
    IF s = <<>> THEN <<cur>>
    ELSE IF Head(s) = sep THEN <<cur>> \o SplitFrom(Tail(s), sep, <<>>)
    ELSE SplitFrom(Tail(s), sep, Append(cur, Head(s)))
Split(s, sep) == SplitFrom(s, sep, <<>>)

\* /^\d+$/.test(s)
AllDigits(s) == s # <<>> /\ \A i \in 1..Len(s) : s[i] \in Digits

\* the reduce over the comma-separated pieces, left to right
RECURSIVE ReduceArgs(_, _)
ReduceArgs(pieces, keyValues) ==
    IF pieces = <<>> THEN keyValues
    ELSE LET keyValue == Split(Head(pieces), ":")
             kept == Len(keyValue) = 2 /\ keyValue[1] # <<>> /\ keyValue[2] # <<>>
             val == IF AllDigits(keyValue[2]) THEN ParseInt(keyValue[2])
                    ELSE Str(keyValue[2])
         IN  ReduceArgs(Tail(pieces),
                        IF kept THEN SetProp(keyValues, keyValue[1], val)
                        ELSE keyValues)

sanitizeEndpointArgs(value) ==
    IF value # <<>>
    THEN LET argProperties == ReduceArgs(Split(value, ","), EmptyObject)
         IN  IF DOMAIN argProperties # {} THEN Obj(argProperties) ELSE Undefined
    ELSE Undefined

-----------------------------------------------------------------------------
(* attachConsent and getStringifiedData, lines 224-246 *)

limitKey == <<"l", "i", "m", "i", "t">>
gdprKey == <<"g", "d", "p", "r">>
gdprConsentKey == <<"g", "d", "p", "r", "_", "c", "o", "n", "s", "e", "n", "t">>

\* consent.consentMetadata is truthy
HasMetadata(c) == Has(c, "consentMetadata")
\* consent.consentMetadata.gdprApplies is truthy
GdprApplies(c) ==
    Has(c.consentMetadata, "gdprApplies") /\ c.consentMetadata.gdprApplies
\* consent.consentString || ""
ConsentStringOf(c) == IF Has(c, "consentString") THEN c.consentString ELSE <<>>

\* c is the value of the global consent when the function runs
\* variant: a page without consent data is reported as gdpr 0
attachConsentDefaultZero(data, c) ==
    IF HasMetadata(c)
    THEN IF GdprApplies(c)
         THEN SetProp(SetProp(data, gdprKey, Num(1)),
                      gdprConsentKey, Str(ConsentStringOf(c)))
         ELSE SetProp(data, gdprKey, Num(0))
    ELSE SetProp(data, gdprKey, Num(0))

\* variant: the consent string is attached whether or not gdpr applies
attachConsentStringAlways(data, c) ==
    IF HasMetadata(c)
    THEN SetProp(SetProp(data, gdprKey, Num(IF GdprApplies(c) THEN 1 ELSE 0)),
                 gdprConsentKey, Str(ConsentStringOf(c)))
    ELSE data

attachConsent(data, c) ==
    IF HasMetadata(c)
    THEN IF GdprApplies(c)
         THEN SetProp(SetProp(data, gdprKey, Num(1)),
                      gdprConsentKey, Str(ConsentStringOf(c)))
         ELSE SetProp(data, gdprKey, Num(0))
    ELSE data

\* The object that is serialised.  When endPointArgs is an object, data is that
\* same object, so the assignments below are made to ENDPOINT_ARGS itself.
dataOf(endPointArgs, limit, c) ==
    LET data == IF IsObject(endPointArgs) THEN endPointArgs.obj ELSE EmptyObject
    IN  attachConsent(SetProp(data, limitKey, limit), c)

\* JSON.stringify(data): the members of the JSON text, name to value
getStringifiedData(endPointArgs, limit, c) == dataOf(endPointArgs, limit, c)

-----------------------------------------------------------------------------
(* isValidUrl, line 29.  A URL string is held parsed into the parts the    *)
(* regular expression reads: scheme (without the colon, "" when there is   *)
(* none), the two slashes, the host (four decimal octets, or the labels of *)
(* a name, the last one the top-level domain), the port digits (empty when *)
(* there is no port) and the rest (path, query, fragment).                 *)

Letters == {"a", "b", "c", "d", "e", "f", "g", "h", "i", "j", "k", "l", "m",
            "n", "o", "p", "q", "r", "s", "t", "u", "v", "w", "x", "y", "z"}
AlphaNum == Letters \cup Digits

IsIpHost(h) == DOMAIN h = {"ip"}

\* the three negative lookaheads: 10/8, 127/8, 169.254/16, 192.168/16, 172.16/12
PrivateRange(ip) ==
    \/ ip[1] \in {10, 127}
    \/ ip[1] = 169 /\ ip[2] = 254
    \/ ip[1] = 192 /\ ip[2] = 168
    \/ ip[1] = 172 /\ ip[2] \in 16..31

\* the octet ranges of the IP alternative
OctetsInRange(ip) ==
    /\ ip[1] \in 1..223
    /\ ip[2] \in 0..255
    /\ ip[3] \in 0..255
    /\ ip[4] \in 1..254

\* one label of a name: 1 to 64 characters, alphanumeric at both ends
ValidLabel(l) ==
    /\ Len(l) \in 1..64
    /\ l[1] \in AlphaNum
    /\ l[Len(l)] \in AlphaNum
    /\ \A i \in 1..Len(l) : l[i] \in AlphaNum \cup {"_", "-"}

\* the top-level domain: two letters or more
ValidTld(l) == Len(l) >= 2 /\ \A i \in 1..Len(l) : l[i] \in Letters

ValidName(labels) ==
    /\ Len(labels) >= 2
    /\ \A i \in 1..(Len(labels) - 1) : ValidLabel(labels[i])
    /\ ValidTld(labels[Len(labels)])

ValidHost(h) ==
    IF IsIpHost(h) THEN ~PrivateRange(h.ip) /\ OctetsInRange(h.ip)
    ELSE ValidName(h.name)

ValidPort(p) == p = <<>> \/ (Len(p) \in 2..5 /\ AllDigits(p))

ValidRest(r) ==
    r = <<>> \/ (r[1] \in {"/", "?", "#"} /\ \A i \in 1..Len(r) : r[i] # " ")

\* isValidUrl.test(url)
isValidUrl(url) ==
    /\ url.scheme \in {"", "http", "https", "ftp"}
    /\ url.slashes
    /\ ValidHost(url.host)
    /\ ValidPort(url.port)
    /\ ValidRest(url.rest)

-----------------------------------------------------------------------------
(* The Bidder Dispatcher, lines 32-79.  ds is the dispatcher's state:      *)
(* [bidders, handled, started, pending].  The continuation done is         *)
(* doAllSyncs.bind(null, bidders): calling it is doAllSyncs on the same    *)
(* array.                                                                  *)

RECURSIVE doAllSyncs(_)
RECURSIVE doBidderSync(_, _, _, _, _)

Transport(kind, url, bidder, index) ==
    [kind |-> kind, url |-> url, bidder |-> bidder, index |-> index]

\* variant: the continuation is called at once, without waiting for the image
triggerPixelNoWait(url, index, ds) ==
    LET t == Transport("pixel", url, "", index)
    IN  doAllSyncs([ds EXCEPT !.started = Append(@, t), !.pending = Append(@, t)])

\* lines 61-66: the image is requested; done is called later, on load or on error
triggerPixel(url, index, ds) ==
    LET t == Transport("pixel", url, "", index)
    IN  [ds EXCEPT !.started = Append(@, t), !.pending = Append(@, t)]

\* lines 48-59: the frame is inserted; done is called later, on load
triggerIframeLoad(url, bidder, index, ds) ==
    IF url = Undefined THEN ds
    ELSE LET t == Transport("iframe", url, bidder, index)
         IN  [ds EXCEPT !.started = Append(@, t), !.pending = Append(@, t)]

\* variant: type 'redirect' is not recognised
doBidderSyncNoRedirect(type, url, bidder, index, ds) ==
    IF url = Undefined \/ ~isValidUrl(url) THEN doAllSyncs(ds)
    ELSE IF type = "image" THEN triggerPixel(url, index, ds)
    ELSE IF type = "iframe" THEN triggerIframeLoad(url, bidder, index, ds)
    ELSE doAllSyncs(ds)

\* variant: done is not called for a missing or invalid url
doBidderSyncStalls(type, url, bidder, index, ds) ==
    IF url = Undefined \/ ~isValidUrl(url) THEN ds
    ELSE IF type = "image" \/ type = "redirect" THEN triggerPixel(url, index, ds)
    ELSE IF type = "iframe" THEN triggerIframeLoad(url, bidder, index, ds)
    ELSE doAllSyncs(ds)

\* variant: done is not called for a sync type that is not supported
doBidderSyncDropsUnsupported(type, url, bidder, index, ds) ==
    IF url = Undefined \/ ~isValidUrl(url) THEN doAllSyncs(ds)
    ELSE IF type = "image" \/ type = "redirect" THEN triggerPixel(url, index, ds)
    ELSE IF type = "iframe" THEN triggerIframeLoad(url, bidder, index, ds)
    ELSE ds

\* index is the position in the response of the record being synced
doBidderSync(type, url, bidder, index, ds) ==
    IF url = Undefined \/ ~isValidUrl(url) THEN doAllSyncs(ds)
    ELSE IF type = "image" \/ type = "redirect" THEN triggerPixel(url, index, ds)
    ELSE IF type = "iframe" THEN triggerIframeLoad(url, bidder, index, ds)
    ELSE doAllSyncs(ds)

\* variant: a bidder that has its cookie ends the chain
doAllSyncsStopsOnSkip(ds) ==
    IF Len(ds.bidders) = 0 THEN ds
    ELSE LET index == Len(ds.bidders)
             thisSync == ds.bidders[index]
             popped == [ds EXCEPT !.bidders = SubSeq(@, 1, index - 1),
                                  !.handled = Append(@, index)]
         IN  IF thisSync.no_cookie
             THEN doBidderSync(thisSync.usersync.type, thisSync.usersync.url,
                               thisSync.bidder, index, popped)
             ELSE popped

doAllSyncs(ds) ==
    IF Len(ds.bidders) = 0 THEN ds
    ELSE LET index == Len(ds.bidders)
             thisSync == ds.bidders[index]
             popped == [ds EXCEPT !.bidders = SubSeq(@, 1, index - 1),
                                  !.handled = Append(@, index)]
         IN  IF thisSync.no_cookie
             THEN doBidderSync(thisSync.usersync.type, thisSync.usersync.url,
                               thisSync.bidder, index, popped)
             ELSE doAllSyncs(popped)

-----------------------------------------------------------------------------
(* The inputs of a page load *)

\* characters of a raw max_sync_count / timeout / defaultGdprScope parameter
ParamChars == {"-", "0", "1", "5", "a", " "}
SeqsUpTo(S, n) == UNION {[1..k -> S] : k \in 0..n}
RawStrings == SeqsUpTo(ParamChars, MaxLen)

\* raw args parameters: absent; "gdpr:1,gdpr_consent:x"; "a:1,b:,:c,d:2";
\* "a:b:c" (nothing survives); "limit:5,a:x"
ArgsGdpr == <<"g", "d", "p", "r", ":", "1", ",",
              "g", "d", "p", "r", "_", "c", "o", "n", "s", "e", "n", "t", ":", "x">>
ArgsMixed == <<"a", ":", "1", ",", "b", ":", ",", ":", "c", ",", "d", ":", "2">>
ArgsNone == <<"a", ":", "b", ":", "c">>
ArgsLimit == <<"l", "i", "m", "i", "t", ":", "5", ",", "a", ":", "x">>
ArgStrings == {<<>>, ArgsGdpr, ArgsMixed, ArgsNone, ArgsLimit}

EndpointNames == {"", "rubicon", "appnexus", "evil"}

NoParams ==
    [endpoint |-> "", args |-> <<>>, max_sync_count |-> <<>>, timeout |-> <<>>,
     defaultGdprScope |-> <<>>]

\* event.data of the 'message' events the page may receive
Null == [null |-> TRUE]
ConsentApplies ==
    [type |-> "consent-data", consentMetadata |-> [gdprApplies |-> TRUE],
     consentString |-> <<"C", "S">>]
ConsentNotApplies ==
    [type |-> "consent-data", consentMetadata |-> [gdprApplies |-> FALSE],
     consentString |-> <<"C", "S">>]
ConsentBare == [type |-> "consent-data"]
OtherMessage ==
    [type |-> "embed-size", consentMetadata |-> [gdprApplies |-> TRUE],
     consentString |-> <<"C", "S">>]
Messages == {Null, ConsentApplies, ConsentNotApplies, ConsentBare, OtherMessage}

\* sync urls: https://x.test/sync, http://192.168.1.1/sync, http://8.8.4.4/sync
UrlName ==
    [scheme |-> "https", slashes |-> TRUE,
     host |-> [name |-> << <<"x">>, <<"t", "e", "s", "t">> >>],
     port |-> <<>>, rest |-> <<"/", "s", "y", "n", "c">>]
UrlPrivate ==
    [scheme |-> "http", slashes |-> TRUE, host |-> [ip |-> <<192, 168, 1, 1>>],
     port |-> <<>>, rest |-> <<"/", "s", "y", "n", "c">>]
UrlPublicIp ==
    [scheme |-> "http", slashes |-> TRUE, host |-> [ip |-> <<8, 8, 4, 4>>],
     port |-> <<>>, rest |-> <<"/", "s", "y", "n", "c">>]

Record(bidder, no_cookie, type, url) ==
    [bidder |-> bidder, no_cookie |-> no_cookie,
     usersync |-> [type |-> type, url |-> url]]

\* the records a bidder_status list is made of
BidderRecords ==
    {Record("a", TRUE, "image", UrlName),
     Record("b", FALSE, "image", UrlName),
     Record("c", TRUE, "iframe", UrlPublicIp),
     Record("d", TRUE, "redirect", UrlName),
     Record("e", TRUE, "script", UrlName),
     Record("f", TRUE, "image", UrlPrivate),
     Record("g", TRUE, "iframe", Undefined)}

BidderLists == SeqsUpTo(BidderRecords, MaxBidders)

\* x.responseText: text that JSON.parse rejects, or the text of an envelope
Malformed == [malformed |-> TRUE]
Envelope(status, list) == [status |-> status, bidder_status |-> list]
Bodies ==
    {Malformed}
    \cup {[status |-> st] : st \in {"ok", "error"}}
    \cup {Envelope(st, l) : st \in {"ok", "no_cookie", "error"}, l \in BidderLists}

\* x.status
StatusCodes == {0, 200, 304, 404}

\* the response texts drawn for a status; a failed request carries an error page
\* or an envelope, which the error callback never reads
ResponseTexts(status) ==
    IF status \in {200, 304}
    THEN Bodies
    ELSE {Malformed} \cup {Envelope("ok", <<r>>) : r \in BidderRecords}

-----------------------------------------------------------------------------
(* Initial states: the page before the script has run *)

Idle ==
    /\ pc = "load"
    /\ ENDPOINT = Undefined
    /\ ENDPOINT_ARGS = Undefined
    /\ MAX_SYNC_COUNT = Undefined
    /\ TIMEOUT = Undefined
    /\ DEFAULT_GDPR_SCOPE = Undefined
    /\ consent = EmptyObject
    /\ syncRan = FALSE
    /\ timeout = "unarmed"
    /\ effects = <<>>
    /\ msgCount = 0
    /\ initCount = 0
    /\ firedBy = "none"
    /\ requests = <<>>
    /\ xhr = "none"
    /\ uncaught = 0
    /\ response = Undefined
    /\ bidders = <<>>
    /\ handled = <<>>
    /\ started = <<>>
    /\ pending = <<>>

\* page loads of the consent gate and the dispatcher
Init ==
    /\ \E scope \in {<<"0">>, <<"1">>}, args \in {<<>>, ArgsGdpr} :
        params = [NoParams EXCEPT !.defaultGdprScope = scope, !.args = args]
    /\ Idle

\* page loads with one parameter drawn from its bounded set
InitParams ==
    /\ \/ \E name \in {"max_sync_count", "timeout", "defaultGdprScope"},
             s \in RawStrings : params = [NoParams EXCEPT ![name] = s]
       \/ \E s \in ArgStrings : params = [NoParams EXCEPT !.args = s]
       \/ \E e \in EndpointNames : params = [NoParams EXCEPT !.endpoint = e]
    /\ Idle

-----------------------------------------------------------------------------
(* The script's top level, lines 17-25, 255-276: one synchronous run *)

\* the calls of lines 255, 262 and 273
setTimeoutCall == [call |-> "setTimeout"]
addEventListenerCall == [call |-> "addEventListener", type |-> "message"]
postMessageCall ==
    [call |-> "postMessage",
     message |-> [sentinel |-> "amp", type |-> "send-consent-data"],
     targetOrigin |-> "*"]

\* variant: the message is posted before the timer is armed
TopLevelEffectsPostFirst == <<postMessageCall, setTimeoutCall, addEventListenerCall>>

\* the top-level calls in program order
TopLevelEffects == <<setTimeoutCall, addEventListenerCall, postMessageCall>>

LoadScript ==
    /\ pc = "load"
    /\ pc' = "running"
    /\ ENDPOINT' = sanitizeEndpoint(params.endpoint)
    /\ ENDPOINT_ARGS' = sanitizeEndpointArgs(params.args)
    /\ MAX_SYNC_COUNT' = maxSyncCountOf(params.max_sync_count)
    /\ TIMEOUT' = sanitizeTimeout(ParseInt(params.timeout))
    /\ DEFAULT_GDPR_SCOPE' = sanitizeScope(ParseInt(params.defaultGdprScope))
    /\ consent' = EmptyObject
    /\ syncRan' = FALSE
    /\ timeout' = "armed"
    /\ effects' = TopLevelEffects
    /\ UNCHANGED <<params, msgCount, initCount, firedBy, requests, xhr, uncaught>>
    /\ UNCHANGED dispatchVars

-----------------------------------------------------------------------------
(* init, lines 248-253, with the ajax call of lines 90-150 up to send().   *)
(* c is the value of consent when init runs, by names its caller.  An      *)
(* exception while the request is built is caught inside ajax.             *)

\* variant: init without the assignment syncRan = true
initKeepsFlag(c, by) ==
    /\ syncRan' = syncRan
    /\ initCount' = initCount + 1
    /\ firedBy' = by
    /\ LET data == getStringifiedData(ENDPOINT_ARGS, MAX_SYNC_COUNT, c)
       IN  /\ requests' = Append(requests, data)
           /\ ENDPOINT_ARGS' = IF IsObject(ENDPOINT_ARGS)
                               THEN Obj(dataOf(ENDPOINT_ARGS, MAX_SYNC_COUNT, c))
                               ELSE ENDPOINT_ARGS
    /\ \E built \in BOOLEAN : xhr' = IF built THEN "sent" ELSE "construction_failed"

init(c, by) ==
    /\ syncRan' = TRUE
    /\ initCount' = initCount + 1
    /\ firedBy' = by
    /\ LET data == getStringifiedData(ENDPOINT_ARGS, MAX_SYNC_COUNT, c)
       IN  /\ requests' = Append(requests, data)
           /\ ENDPOINT_ARGS' = IF IsObject(ENDPOINT_ARGS)
                               THEN Obj(dataOf(ENDPOINT_ARGS, MAX_SYNC_COUNT, c))
                               ELSE ENDPOINT_ARGS
    /\ \E built \in BOOLEAN : xhr' = IF built THEN "sent" ELSE "construction_failed"

\* variant: the timer callback does not consult the scope
ScopeIgnored == TRUE

\* variant: the negation of the test is lost
ScopeIsTruthy == DEFAULT_GDPR_SCOPE # Num(0)

\* !DEFAULT_GDPR_SCOPE
ScopeIsFalsy == DEFAULT_GDPR_SCOPE = Num(0)

\* the setTimeout callback, lines 255-260
TimerFires ==
    /\ pc = "running"
    /\ timeout = "armed"
    /\ timeout' = "fired"
    /\ IF ~syncRan /\ ScopeIsFalsy
       THEN init(consent, "timer")
       ELSE UNCHANGED <<syncRan, initCount, firedBy, requests, ENDPOINT_ARGS, xhr>>
    /\ UNCHANGED <<pc, params, ENDPOINT, MAX_SYNC_COUNT, TIMEOUT, DEFAULT_GDPR_SCOPE,
                   consent, effects, msgCount, uncaught>>
    /\ UNCHANGED dispatchVars

\* variant: the timer is not cancelled
clearTimeoutNoop(t) == t

\* clearTimeout(timeout): a timer that has run or was cleared is left as it is
clearTimeout(t) == IF t = "armed" THEN "cleared" ELSE t

\* variant: the listener adopts the data of every message, whatever its type
MessageArrivesAnyType(m) ==
    /\ pc = "running"
    /\ msgCount < MaxMessages
    /\ msgCount' = msgCount + 1
    /\ IF m = Null
       THEN /\ uncaught' = uncaught + 1
            /\ UNCHANGED <<consent, timeout, syncRan, initCount, firedBy, requests,
                           ENDPOINT_ARGS, xhr>>
       ELSE /\ consent' = m
            /\ timeout' = clearTimeout(timeout)
            /\ IF ~syncRan
               THEN init(m, "message")
               ELSE UNCHANGED <<syncRan, initCount, firedBy, requests,
                                ENDPOINT_ARGS, xhr>>
            /\ UNCHANGED uncaught
    /\ UNCHANGED <<pc, params, ENDPOINT, MAX_SYNC_COUNT, TIMEOUT, DEFAULT_GDPR_SCOPE,
                   effects>>
    /\ UNCHANGED dispatchVars

\* the 'message' listener, lines 262-271, on an event whose data is m
MessageArrives(m) ==
    /\ pc = "running"
    /\ msgCount < MaxMessages
    /\ msgCount' = msgCount + 1
    /\ IF m = Null
       THEN \* event.data.type throws a TypeError
            /\ uncaught' = uncaught + 1
            /\ UNCHANGED <<consent, timeout, syncRan, initCount, firedBy, requests,
                           ENDPOINT_ARGS, xhr>>
       ELSE IF m.type = "consent-data"
       THEN /\ consent' = m
            /\ timeout' = clearTimeout(timeout)
            /\ IF ~syncRan
               THEN init(m, "message")
               ELSE UNCHANGED <<syncRan, initCount, firedBy, requests,
                                ENDPOINT_ARGS, xhr>>
            /\ UNCHANGED uncaught
       ELSE UNCHANGED <<consent, timeout, syncRan, initCount, firedBy, requests,
                        ENDPOINT_ARGS, xhr, uncaught>>
    /\ UNCHANGED <<pc, params, ENDPOINT, MAX_SYNC_COUNT, TIMEOUT, DEFAULT_GDPR_SCOPE,
                   effects>>
    /\ UNCHANGED dispatchVars

-----------------------------------------------------------------------------
(* The response, lines 81-88 and 110-119 *)

DispatcherState == [bidders |-> bidders, handled |-> handled,
                    started |-> started, pending |-> pending]

SetDispatcher(ds) ==
    /\ bidders' = ds.bidders
    /\ handled' = ds.handled
    /\ started' = ds.started
    /\ pending' = ds.pending

\* variant: the error callback passes the response text to process as well
XhrCompleteProcessesErrors(status, body) ==
    /\ xhr = "sent"
    /\ xhr' = IF (status >= 200 /\ status < 300) \/ status = 304
              THEN "success" ELSE "error"
    /\ IF body = Malformed
       THEN /\ uncaught' = uncaught + 1
            /\ UNCHANGED dispatchVars
       ELSE IF body.status \in {"ok", "no_cookie"} /\ Has(body, "bidder_status")
       THEN /\ response' = [list |-> body.bidder_status]
            /\ SetDispatcher(doAllSyncs([bidders |-> body.bidder_status,
                                         handled |-> <<>>,
                                         started |-> <<>>,
                                         pending |-> <<>>]))
            /\ UNCHANGED uncaught
       ELSE UNCHANGED <<uncaught, response, bidders, handled, started, pending>>
    /\ UNCHANGED <<pc, params, effects, msgCount>>
    /\ UNCHANGED configVars
    /\ UNCHANGED gateVars

\* x.onreadystatechange with readyState 4
XhrComplete(status, body) ==
    /\ xhr = "sent"
    /\ IF (status >= 200 /\ status < 300) \/ status = 304
       THEN \* callbacks.success is process
            /\ xhr' = "success"
            /\ IF body = Malformed
               THEN \* JSON.parse throws out of the handler
                    /\ uncaught' = uncaught + 1
                    /\ UNCHANGED dispatchVars
               ELSE IF body.status \in {"ok", "no_cookie"} /\ Has(body, "bidder_status")
               THEN /\ response' = [list |-> body.bidder_status]
                    /\ SetDispatcher(doAllSyncs([bidders |-> body.bidder_status,
                                                 handled |-> <<>>,
                                                 started |-> <<>>,
                                                 pending |-> <<>>]))
                    /\ UNCHANGED uncaught
               ELSE UNCHANGED <<uncaught, response, bidders, handled, started, pending>>
       ELSE \* callbacks.error logs
            /\ xhr' = "error"
            /\ UNCHANGED <<uncaught, response, bidders, handled, started, pending>>
    /\ UNCHANGED <<pc, params, effects, msgCount>>
    /\ UNCHANGED configVars
    /\ UNCHANGED gateVars

\* the load (or error) event of the i-th pending transport: its continuation runs
TransportDone(i) ==
    /\ i \in 1..Len(pending)
    /\ SetDispatcher(doAllSyncs(
          [DispatcherState EXCEPT
              !.pending = SubSeq(pending, 1, i - 1) \o SubSeq(pending, i + 1, Len(pending))]))
    /\ UNCHANGED <<pc, params, effects, msgCount, xhr, uncaught, response>>
    /\ UNCHANGED configVars
    /\ UNCHANGED gateVars

-----------------------------------------------------------------------------

Next ==
    \/ LoadScript
    \/ TimerFires
    \/ \E m \in Messages : MessageArrives(m)
    \/ \E status \in StatusCodes :
          \E body \in ResponseTexts(status) : XhrComplete(status, body)
    \/ \E i \in 1..MaxBidders : TransportDone(i)

Spec == Init /\ [][Next]_vars

\* every transport that was started fires its load or error event in the end
TransportsFire == WF_vars(\E i \in 1..MaxBidders : TransportDone(i))

\* page loads under scope 0 with no args: the timer or the first consent-data
\* message makes the request
InitFair ==
    /\ params = [NoParams EXCEPT !.defaultGdprScope = <<"0">>]
    /\ Idle

SpecFair == InitFair /\ [][Next]_vars /\ TransportsFire

\* the sanitizers applied to every parameter of the bounded sets
NextParams == LoadScript

SpecParams == InitParams /\ [][NextParams]_vars

-----------------------------------------------------------------------------
(* The consent gate *)

\* no consent-data message has been handled yet
ConsentUnknown == consent = EmptyObject

\* C1: under every interleaving of messages and the timer, and for both values
\* of DEFAULT_GDPR_SCOPE, init (the cookie_sync request) is invoked at most
\* once per page load.
C1_AtMostOnce == initCount <= 1 /\ Len(requests) <= 1

\* the timer ran and started the request, and every message of the bound
\* arrived after it, a consent-data message among them
C1_Witness ==
    /\ initCount = 1
    /\ firedBy = "timer"
    /\ msgCount = MaxMessages
    /\ ~ConsentUnknown

\* C2 as stated: once the timer has elapsed with no consent-data message before
\* it and the scope is 1, the request is never made, whatever follows.
C2_Original ==
    (timeout = "fired" /\ DEFAULT_GDPR_SCOPE = Num(1)) => initCount = 0

\* C2, amended: when the timer has elapsed with no consent-data message before
\* it and the scope is 1, the timer callback never makes the request; the
\* request stays unmade exactly as long as no consent-data message arrives, and
\* the first consent-data message that arrives after the timeout makes it.
C2_UnfiredUntilConsent ==
    (timeout = "fired" /\ DEFAULT_GDPR_SCOPE = Num(1)) =>
        /\ firedBy # "timer"
        /\ (initCount = 0) <=> ConsentUnknown
        /\ initCount = 1 => firedBy = "message"

\* the timer elapsed under scope 1 and a later consent-data message made the request
C2_Witness ==
    /\ timeout = "fired"
    /\ DEFAULT_GDPR_SCOPE = Num(1)
    /\ firedBy = "message"
    /\ initCount = 1

\* the args object the page supplied, before init changes it
SuppliedArgs ==
    LET a == sanitizeEndpointArgs(params.args)
    IN  IF IsObject(a) THEN a.obj ELSE EmptyObject

\* the timer elapsed with no consent-data message before it, under scope 0
TimedOutScopeZero == timeout = "fired" /\ DEFAULT_GDPR_SCOPE = Num(0)

\* C3 as stated: if the timer elapses before any consent-data message and the
\* scope is 0, the request is made and its payload has neither gdpr nor
\* gdpr_consent, for every sanitized args value.
C3_Original ==
    TimedOutScopeZero =>
        /\ initCount = 1
        /\ Len(requests) = 1
        /\ ~Has(requests[1], gdprKey)
        /\ ~Has(requests[1], gdprConsentKey)

\* C3, amended: if the timer elapses before any consent-data message and the
\* scope is 0, the request is made by the timer callback and the requestor adds
\* no gdpr and no gdpr_consent field: the payload has such a field only when
\* the args parameter supplies it, with the value the args give it.
C3_NoConsentFieldsAdded ==
    TimedOutScopeZero =>
        /\ initCount = 1
        /\ firedBy = "timer"
        /\ Len(requests) = 1
        /\ \A key \in {gdprKey, gdprConsentKey} :
              Has(requests[1], key) =>
                  Has(SuppliedArgs, key) /\ requests[1][key] = SuppliedArgs[key]

\* the timer made the request under scope 0, with no args, and the payload has
\* neither field
C3_Witness ==
    /\ TimedOutScopeZero
    /\ firedBy = "timer"
    /\ Len(requests) = 1
    /\ params.args = <<>>
    /\ ~Has(requests[1], gdprKey)
    /\ ~Has(requests[1], gdprConsentKey)

\* a consent-data message was handled while the timer had not elapsed
MessageBeforeTimer == ~ConsentUnknown /\ timeout # "fired"

\* C4: when a consent-data message is handled before the timer elapses, the
\* timer is cancelled in that step and stays cancelled, so its callback never
\* makes the request: the one request is the one of the message path.
C4_TimerCancelled ==
    /\ [](MessageBeforeTimer =>
            timeout = "cleared" /\ firedBy = "message" /\ initCount = 1)
    /\ [][timeout = "cleared" =>
            timeout' = "cleared" /\ initCount' = initCount /\ firedBy' = firedBy]_vars

\* the message came first, and every later event of the bound has happened
C4_Witness ==
    /\ timeout = "cleared"
    /\ firedBy = "message"
    /\ msgCount = MaxMessages
    /\ xhr \in {"success", "error"}

-----------------------------------------------------------------------------
(* The bidder dispatcher.  Every started transport calls its continuation  *)
(* once (TransportDone).                                                   *)

\* a bidder_status list has been handed to doAllSyncs
Dispatched == "list" \in DOMAIN response

HandledSet == {handled[k] : k \in 1..Len(handled)}

\* the started transports of the record at position i of the response
TransportsOf(i) == {k \in 1..Len(started) : started[k].index = i}

\* C5: every record of the list handed to doAllSyncs is removed and handled
\* exactly once: none is handled twice, the records still in the array are the
\* ones not handled yet, and when no transport is outstanding the whole list
\* has been handled (none is skipped).
C5_EachRecordOnce ==
    Dispatched =>
        LET n == Len(response.list)
            left == 1..Len(bidders)
        IN  /\ \A j, k \in 1..Len(handled) : j # k => handled[j] # handled[k]
            /\ HandledSet \cup left = 1..n
            /\ HandledSet \cap left = {}
            /\ bidders = SubSeq(response.list, 1, Len(bidders))
            /\ pending = <<>> => (bidders = <<>> /\ Len(handled) = n)

\* a list of the longest length has been drained through two transports
C5_Witness ==
    /\ Dispatched
    /\ Len(response.list) = MaxBidders
    /\ Len(handled) = Len(response.list)
    /\ Len(started) >= 2
    /\ pending = <<>>

\* no_cookie is true, the url is present and valid, and the type is supported
Eligible(r) ==
    /\ r.no_cookie
    /\ r.usersync.url # Undefined
    /\ isValidUrl(r.usersync.url)
    /\ r.usersync.type \in {"image", "redirect", "iframe"}

KindOf(type) == IF type = "iframe" THEN "iframe" ELSE "pixel"

\* C6: a handled record has a transport if and only if it has no_cookie true,
\* a valid url and a supported type: one pixel for image or redirect, one
\* iframe for iframe, to the record's url; any other record has none, and the
\* chain goes on at once: it only ever waits on the transport of such a record.
C6_TransportIffEligible ==
    Dispatched =>
        /\ \A i \in 1..Len(response.list) :
              LET r == response.list[i]
              IN  IF i \in HandledSet /\ Eligible(r)
                  THEN /\ Cardinality(TransportsOf(i)) = 1
                       /\ \A k \in TransportsOf(i) :
                             /\ started[k].kind = KindOf(r.usersync.type)
                             /\ started[k].url = r.usersync.url
                  ELSE TransportsOf(i) = {}
        /\ bidders # <<>> =>
              /\ pending # <<>>
              /\ \A k \in 1..Len(pending) : Eligible(response.list[pending[k].index])

\* the response of the example: "a" needs a sync by image, "b" has its cookie;
\* exactly one pixel was triggered, for "a"
C6_Witness ==
    /\ Dispatched
    /\ response.list = <<Record("a", TRUE, "image", UrlName),
                         Record("b", FALSE, "image", UrlName)>>
    /\ handled = <<2, 1>>
    /\ Len(started) = 1
    /\ started[1].kind = "pixel"
    /\ started[1].index = 1

\* C7: at most one started transport is waiting for its continuation, and it
\* is the one started last: the next bidder's transport is not started before
\* the continuation of the current one has run.
C7_OneOutstanding ==
    /\ Len(pending) <= 1
    /\ pending # <<>> => pending[1] = started[Len(started)]

\* a second transport is outstanding after the first one's continuation ran
C7_Witness ==
    /\ Len(started) = 2
    /\ Len(pending) = 1
    /\ started[1].index # started[2].index

\* the sync target of a bidder that needs a sync is missing or is rejected
InvalidTarget(r) ==
    /\ r.no_cookie
    /\ \/ r.usersync.url = Undefined
       \/ ~isValidUrl(r.usersync.url)

\* the sync target of a bidder that needs a sync is on a private-range address
PrivateTarget(r) ==
    /\ r.no_cookie
    /\ r.usersync.url # Undefined
    /\ IsIpHost(r.usersync.url.host)
    /\ PrivateRange(r.usersync.url.host.ip)

\* C8: for a handled record with no_cookie true whose url is missing or
\* invalid (a private-range host is), no transport is started and the
\* continuation runs at once: the record before it in the array is handled in
\* the same step, so the chain does not stop there.
C8_InvalidTargetContinues ==
    Dispatched =>
        \A i \in HandledSet :
            LET r == response.list[i]
            IN  (InvalidTarget(r) \/ PrivateTarget(r)) =>
                    /\ TransportsOf(i) = {}
                    /\ i > 1 => (i - 1) \in HandledSet

\* the private-range record was popped first and the chain went on to "a"
C8_Witness ==
    /\ Dispatched
    /\ response.list = <<Record("a", TRUE, "image", UrlName),
                         Record("f", TRUE, "image", UrlPrivate)>>
    /\ handled = <<2, 1>>
    /\ Len(started) = 1
    /\ started[1].index = 1

-----------------------------------------------------------------------------
(* The consent cell *)

\* C9 as stated: once known, the consent cell is never written again.
C9_Original == [][~ConsentUnknown => consent' = consent]_vars

\* C9, amended: the cell is unknown until the first message, and once known it
\* never becomes unknown again; it is not written once, though: each
\* consent-data message overwrites it, also after the request was made.  It
\* changes only when a message is delivered, only to a consent-data payload,
\* and a request already made is never changed by it.
C9_OverwrittenByConsentDataOnly ==
    /\ [](msgCount = 0 => ConsentUnknown)
    /\ [][/\ ~ConsentUnknown => consent' # EmptyObject
          /\ consent' # consent =>
                /\ msgCount' = msgCount + 1
                /\ Has(consent', "type")
                /\ consent'.type = "consent-data"
          /\ requests # <<>> => requests' = requests]_vars

\* the request was made with gdpr 1 and a later message replaced the consent
C9_Witness ==
    /\ params.args = <<>>
    /\ Len(requests) = 1
    /\ Has(requests[1], gdprKey)
    /\ requests[1][gdprKey] = Num(1)
    /\ consent = ConsentNotApplies

-----------------------------------------------------------------------------
(* The sync count, checked under SpecParams *)

\* the number a string of decimal digits denotes
RECURSIVE DecimalValue(_)
DecimalValue(s) ==
    IF s = <<>> THEN 0
    ELSE 10 * DecimalValue(SubSeq(s, 1, Len(s) - 1)) + DigitVal(s[Len(s)])

\* a non-negative integer, a negative integer, a string without any digit
IsNatString(s) == AllDigits(s)
IsNegativeString(s) ==
    Len(s) >= 2 /\ s[1] = "-" /\ AllDigits(Tail(s)) /\ DecimalValue(Tail(s)) > 0
IsNonNumeric(s) == s # <<>> /\ \A k \in 1..Len(s) : s[k] \notin Digits

Loaded == pc = "running"

\* C10 as stated: an absent, negative or non-numeric max_sync_count gives the
\* sentinel; a non-negative integer is passed through.
C10_Original ==
    Loaded =>
        LET p == params.max_sync_count
        IN  /\ (p = <<>> \/ IsNegativeString(p) \/ IsNonNumeric(p)) =>
                  MAX_SYNC_COUNT = MaxSafeInteger
            /\ IsNatString(p) => MAX_SYNC_COUNT = Num(DecimalValue(p))

\* C10, amended: a negative or non-numeric max_sync_count gives the sentinel
\* 9007199254740991, an absent (or empty) one gives the default 10, and a
\* non-negative integer, 0 included, is passed through unchanged.
C10_SyncCount ==
    Loaded =>
        LET p == params.max_sync_count
        IN  /\ (IsNegativeString(p) \/ IsNonNumeric(p)) =>
                  MAX_SYNC_COUNT = MaxSafeInteger
            /\ p = <<>> => MAX_SYNC_COUNT = Num(10)
            /\ IsNatString(p) => MAX_SYNC_COUNT = Num(DecimalValue(p))

\* a negative count was replaced by the sentinel
C10_Witness ==
    /\ Loaded
    /\ params.max_sync_count = <<"-", "5">>
    /\ MAX_SYNC_COUNT = MaxSafeInteger

-----------------------------------------------------------------------------
(* The timeout and the default scope, checked under SpecParams *)

\* C11: TIMEOUT is always a non-negative integer: a timeout parameter that is
\* a non-negative integer is kept, and an absent, non-numeric or negative one
\* gives 10000.
C11_Claim ==
    Loaded =>
        LET p == params.timeout
        IN  /\ TIMEOUT.num >= 0
            /\ IsNatString(p) => TIMEOUT = Num(DecimalValue(p))
            /\ (p = <<>> \/ IsNonNumeric(p) \/ IsNegativeString(p)) =>
                  TIMEOUT = Num(10000)

\* C12: DEFAULT_GDPR_SCOPE is always 0 or 1: the parameters 0 and 1 are kept,
\* and an absent, non-numeric, negative or larger one gives 1.
C12_Scope ==
    Loaded =>
        LET p == params.defaultGdprScope
        IN  /\ DEFAULT_GDPR_SCOPE \in {Num(0), Num(1)}
            /\ (IsNatString(p) /\ DecimalValue(p) \in {0, 1}) =>
                  DEFAULT_GDPR_SCOPE = Num(DecimalValue(p))
            /\ (\/ p = <<>>
                \/ IsNonNumeric(p)
                \/ IsNegativeString(p)
                \/ IsNatString(p) /\ DecimalValue(p) > 1) =>
                  DEFAULT_GDPR_SCOPE = Num(1)

\* a scope greater than 1 was replaced by 1
C12_Witness ==
    /\ Loaded
    /\ params.defaultGdprScope = <<"5">>
    /\ DEFAULT_GDPR_SCOPE = Num(1)

-----------------------------------------------------------------------------
(* The response and the failure of the request *)

\* the response text holds an envelope that process hands to doAllSyncs
Accepted(body) ==
    /\ body # Malformed
    /\ body.status \in {"ok", "no_cookie"}
    /\ Has(body, "bidder_status")

\* C13: on a successful response the bidder list is handed to the dispatcher
\* exactly when the status is ok or no_cookie and a bidder status list is
\* present; any other status, an absent list or a text that does not parse
\* starts no sync and lets no exception leave the handler.
C13_Claim ==
    [][\A status \in {200, 304} : \A body \in Bodies :
          XhrComplete(status, body) =>
              /\ uncaught' = uncaught
              /\ Dispatched' <=> Accepted(body)
              /\ ~Accepted(body) => started' = <<>>]_vars

\* the request ended without a response that process could read
RequestFailed == xhr \in {"error", "construction_failed"}

\* C14: once the request has failed (a status outside 200-299 other than 304,
\* a network error, an exception while it was built), doAllSyncs is never
\* called, no transport is started, and no second request is made.
C14_NoSyncOnFailure ==
    /\ [](RequestFailed =>
            /\ ~Dispatched
            /\ bidders = <<>> /\ handled = <<>>
            /\ started = <<>> /\ pending = <<>>
            /\ Len(requests) = 1 /\ initCount = 1)
    /\ [][RequestFailed => xhr' = xhr /\ requests' = requests]_vars

\* the request failed with an error status, and a consent-data message that
\* came afterwards or before did not start another one
C14_Witness ==
    /\ xhr = "error"
    /\ firedBy = "timer"
    /\ ~ConsentUnknown
    /\ msgCount = MaxMessages

-----------------------------------------------------------------------------
(* The consent fields of the payload *)

\* a step in which init runs; consent' is then the consent that init reads
RequestMade == Len(requests') = Len(requests) + 1
Payload == requests[Len(requests)]

\* C15 as stated: in every payload, gdpr is present only if consent was known
\* when the request was made (1 when gdprApplies is true, 0 otherwise), and
\* gdpr_consent is present only if gdpr is 1, for every sanitized args value.
C15_Original ==
    [][RequestMade =>
          /\ Has(Payload', gdprKey) =>
                /\ ~ConsentUnknown'
                /\ Payload'[gdprKey] =
                      Num(IF HasMetadata(consent') /\ GdprApplies(consent')
                          THEN 1 ELSE 0)
          /\ Has(Payload', gdprConsentKey) =>
                Has(Payload', gdprKey) /\ Payload'[gdprKey] = Num(1)]_vars

\* what the args parameter gives the payload for key, when init sets nothing
FromArgsOnly(data, key) ==
    Has(data, key) => Has(SuppliedArgs, key) /\ data[key] = SuppliedArgs[key]

\* C15, amended: in every payload, the requestor sets gdpr only if the consent
\* data known when the request is made carries consentMetadata (1 when
\* gdprApplies is true, 0 otherwise) and sets gdpr_consent only together with
\* gdpr 1; a gdpr or gdpr_consent field that the requestor does not set is
\* present only when the args parameter supplies it, with the args' value.
C15_ConsentFields ==
    [][RequestMade =>
          /\ IF HasMetadata(consent')
             THEN Payload'[gdprKey] = Num(IF GdprApplies(consent') THEN 1 ELSE 0)
             ELSE FromArgsOnly(Payload', gdprKey)
          /\ IF HasMetadata(consent') /\ GdprApplies(consent')
             THEN Payload'[gdprConsentKey] = Str(ConsentStringOf(consent'))
             ELSE FromArgsOnly(Payload', gdprConsentKey)]_vars

\* a request made on a consent-data message that says gdpr does not apply, with
\* no args: gdpr is 0 and there is no gdpr_consent
C15_Witness ==
    /\ Len(requests) = 1
    /\ firedBy = "message"
    /\ params.args = <<>>
    /\ Has(Payload, gdprKey) /\ Payload[gdprKey] = Num(0)
    /\ ~Has(Payload, gdprConsentKey)

-----------------------------------------------------------------------------
(* The start of the script *)

\* the positions in the run of the top level at which a function was called
CallsOf(name) == {i \in DOMAIN effects : effects[i].call = name}

\* the request for consent was posted to the parent exactly once
PostedOnce ==
    \E p \in CallsOf("postMessage") :
        /\ CallsOf("postMessage") = {p}
        /\ effects[p] = postMessageCall

\* C16 as stated: at its start the script first posts exactly one
\* request-for-consent message to the parent and only then arms the timer;
\* the message is posted exactly once per page load.
C16_Original ==
    Loaded =>
        /\ PostedOnce
        /\ CallsOf("setTimeout") # {}
        /\ \A p \in CallsOf("postMessage"), t \in CallsOf("setTimeout") : p < t

\* C16, amended: at its start the script arms the timer, then registers the
\* message listener, and only then posts exactly one request-for-consent
\* message to the parent, all in one synchronous run; nothing is posted before
\* that run, and the message is posted exactly once per page load.
C16_ArmedThenPosted ==
    /\ pc = "load" => effects = <<>> /\ timeout = "unarmed"
    /\ Loaded =>
          /\ PostedOnce
          /\ timeout # "unarmed"
          /\ \E t \in CallsOf("setTimeout") : CallsOf("setTimeout") = {t}
          /\ \A t \in CallsOf("setTimeout"),
                l \in CallsOf("addEventListener"),
                p \in CallsOf("postMessage") : t < l /\ l < p

\* the timer has run and messages have arrived since, and the request for
\* consent is still the only one posted
C16_Witness ==
    /\ Loaded
    /\ timeout = "fired"
    /\ msgCount = MaxMessages
    /\ PostedOnce
    /\ Len(effects) = 3

-----------------------------------------------------------------------------
(* The end of the chain, checked under SpecFair *)

\* doAllSyncs has found the list empty and returned, with no transport waiting
ChainEnded == Dispatched /\ bidders = <<>> /\ pending = <<>>

\* C17: for every bidder list of the response, if every transport that was
\* started fires its continuation, the chain reaches the empty list and stops.
\* Each call of doAllSyncs pops one record from the tail, so each run of a
\* continuation shortens the list for as long as it is not empty, every record
\* popped is one handled, and nothing more happens once the chain has ended.
C17_ChainEnds ==
    /\ Dispatched ~> ChainEnded
    /\ [][Dispatched =>
            /\ bidders' = SubSeq(bidders, 1, Len(bidders'))
            /\ Len(handled') - Len(handled) = Len(bidders) - Len(bidders')
            /\ (pending' # pending /\ bidders # <<>>) => Len(bidders') < Len(bidders)
            /\ ChainEnded => UNCHANGED <<bidders, handled, started, pending>>]_vars

\* a list of MaxBidders records was worked off to the end through a transport
C17_Witness ==
    /\ ChainEnded
    /\ Len(response.list) = MaxBidders
    /\ Len(handled) = MaxBidders
    /\ Len(started) >= 1

-----------------------------------------------------------------------------
(* The configuration, the conservative scope, and messages of other types *)

\* C18: the configuration (endpoint, endpoint args, max sync count, timeout,
\* default scope) does not change after the script has derived it: no later
\* step, the request and the building of its payload included, changes a field.
C18_Claim == [][Loaded => UNCHANGED configVars]_vars

\* C19: when the default scope is 1, a request is made only after a
\* consent-data message has been received: in no state has init run while the
\* consent is still unknown.
C19_ConsentBeforeRequest ==
    (Loaded /\ DEFAULT_GDPR_SCOPE = Num(1) /\ initCount >= 1) =>
        /\ ~ConsentUnknown
        /\ firedBy = "message"
        /\ msgCount >= 1
        /\ timeout # "armed"

\* under scope 1 the timer ran first and made no request; the consent-data
\* message that came later made it
C19_Witness ==
    /\ DEFAULT_GDPR_SCOPE = Num(1)
    /\ initCount = 1
    /\ timeout = "fired"
    /\ firedBy = "message"
    /\ HasMetadata(consent)

\* event.data is not an object of type 'consent-data'
NotConsentData(m) == m = Null \/ m.type # "consent-data"

\* C20: a message whose data is not of type 'consent-data' changes nothing:
\* consent, syncRan and the timer stay as they are, init is not called and no
\* error is raised, whatever the data and whatever the state of the gate.
C20_Claim ==
    [][\A m \in Messages :
          (MessageArrives(m) /\ NotConsentData(m)) =>
              /\ UNCHANGED <<consent, syncRan, timeout>>
              /\ UNCHANGED <<initCount, requests, xhr>>
              /\ UNCHANGED uncaught]_vars

=============================================================================
